---- MODULE Spec2Model ----
(***************************************************************************)
(* Full duplex software UART for the ATtiny85 (fd-serial.c).               *)
(*                                                                         *)
(* The model has one foreground thread (the callers of the fdserial_* API, *)
(* one C statement per step), the three interrupt handlers (INT0,          *)
(* TIMER1_COMPA, TIMER1_COMPB; each runs to completion because the AVR     *)
(* masks interrupts inside a handler), the timer/counter 1 hardware        *)
(* (TCNT1 counting 0..OCR1C, the compare flags in TIFR) and the two serial *)
(* lines.                                                                  *)
(***************************************************************************)
EXTENDS Integers, Naturals, Sequences, FiniteSets, TLC

(* ------------------------------------------------------------------ *)
(* Program constants                                                   *)
(* ------------------------------------------------------------------ *)
CPU_FREQ == 8000000
PRESCALER_DIVISOR == 4
SERIAL_TOP == 207
SERIAL_HALFBIT == 104

(* Capacity of rx_buf in the ring build (-DRING_BUFFER=n). *)
RING_BUFFER == 4

(* ------------------------------------------------------------------ *)
(* Bounds of the model                                                 *)
(* ------------------------------------------------------------------ *)
(* Number of fdserial_send calls in a run that keeps the whole log.   *)
MaxSends == 2
(* Number of frames the remote sender puts on the RX line.            *)
MaxFrames == 6
(* Number of fdserial_recv calls in a run.                            *)
MaxRecvs == 6
(* A straight run of foreground statements may start up to this many  *)
(* counts before a compare match or a line edge and be caught by it.  *)
FgWindow == 1
(* Spacing of the other counter phases at which the foreground may    *)
(* start a call and the remote sender may start a frame.              *)
PhaseStep == 104
(* Largest duration passed to fdserial_alarm / fdserial_delay.        *)
MaxDuration == 3
MaxInits == 1
MaxBreaks == 2
SysFrames == 1

Period == SERIAL_TOP + 1
Byte == 0 .. 255

Min(a, b) == IF a < b THEN a ELSE b
Max(a, b) == IF a > b THEN a ELSE b

(* Bit i (0 = least significant) of octet b. *)
Bit(b, i) == (b \div (2 ^ i)) % 2

VARIABLES
    pc,          \* foreground: the statement about to execute
    arg,         \* foreground: send_arg / duration of the call in progress
    loc,         \* foreground: locals and registers of the call in progress
    fd_uart1,    \* static struct fd_uart fd_uart1
    TCNT1, OCR1A, OCR1B,   \* timer/counter 1 registers
    TIMSK,       \* timer interrupt mask: subset of {"OCIE1A", "OCIE1B"}
    TIFR,        \* timer interrupt flags: subset of {"OCF1A", "OCF1B"}
    GIMSK,       \* general interrupt mask: subset of {"INT0"}
    GIFR,        \* general interrupt flags: subset of {"INTF0"}
    TCCR1,       \* TRUE when the prescaler bits are set (counter running)
    tx_pin,      \* level of the TX line (PORTB3)
    rx_pin,      \* level of the RX line (PORTB2 / INT0)
    build,       \* build configuration: [ring, char_signed, wired]
    remote,      \* the remote sender on the RX line: [wire, phase, seq]
    hist         \* history of the run (see HistReset)

vars == << pc, arg, loc, fd_uart1, TCNT1, OCR1A, OCR1B, TIMSK, TIFR, GIMSK,
           GIFR, TCCR1, tx_pin, rx_pin, build, remote, hist >>


(* ------------------------------------------------------------------ *)
(* Pure parts of the handlers and of the API                            *)
(* ------------------------------------------------------------------ *)

(* The frame of octet b on the line: start (low), b0..b7, stop (high). *)
Frame(b) == << 0 >> \o [i \in 1 .. 8 |-> Bit(b, i - 1)] \o << 1 >>

(* x |= bits on a mask register (TIMSK, GIMSK): the value written. *)
OrBits(read, bits) == read \cup bits

(* x &= ~bits on a mask register: the value written. *)
ClearBits(read, bits) == read \ bits

(* x |= bits on a flag register (TIFR, GIFR): a flag is cleared by writing
   one to it, so every flag read as set is cleared along with bits. *)
WriteOnes(flags, bits) == flags \ (flags \cup bits)

(* _start_tx: the value written back to TIMSK from the value read. *)
StartTxWrite(read) == OrBits(read, {"OCIE1A"})

(* The manual wrap of a ring index (8 bit). *)
RingNext(x) == IF x = RING_BUFFER - 1 THEN 0 ELSE (x + 1) % 256

(* The delay field after --delay.  The wrap of 0 is kept as -1 ("still
   counting"): 2^32 - 1 further ticks are beyond every run of the model. *)
DelayDec(d) == IF d <= 0 THEN -1 ELSE d - 1

(* CompA with the data bits sent most significant first. *)
CompA_msb_first(u, pin) ==
    CASE u.tx_state = 1 ->
           [u |-> [u EXCEPT !.tx_state = 2, !.send_bits = 8],
            pin |-> 0, wrote |-> TRUE, stop |-> FALSE]
      [] u.tx_state = 2 ->
           LET bits == (u.send_bits + 255) % 256
           IN  [u |-> [u EXCEPT !.send_byte = (u.send_byte * 2) % 256,
                                !.send_bits = bits,
                                !.tx_state = IF bits = 0 THEN 3 ELSE 2],
                pin |-> u.send_byte \div 128, wrote |-> TRUE, stop |-> FALSE]
      [] u.tx_state = 3 ->
           [u |-> [u EXCEPT !.tx_state = 4],
            pin |-> 1, wrote |-> TRUE, stop |-> FALSE]
      [] u.tx_state = 4 ->
           [u |-> [u EXCEPT !.send_ready = 1, !.tx_state = 0],
            pin |-> pin, wrote |-> FALSE, stop |-> TRUE]
      [] OTHER ->
           [u |-> u, pin |-> pin, wrote |-> FALSE, stop |-> FALSE]

(* CompA that sets send_ready with the stop bit, one tick early. *)
CompA_ready_at_stop(u, pin) ==
    CASE u.tx_state = 1 ->
           [u |-> [u EXCEPT !.tx_state = 2, !.send_bits = 8],
            pin |-> 0, wrote |-> TRUE, stop |-> FALSE]
      [] u.tx_state = 2 ->
           LET bits == (u.send_bits + 255) % 256
           IN  [u |-> [u EXCEPT !.send_byte = u.send_byte \div 2,
                                !.send_bits = bits,
                                !.tx_state = IF bits = 0 THEN 3 ELSE 2],
                pin |-> u.send_byte % 2, wrote |-> TRUE, stop |-> FALSE]
      [] u.tx_state = 3 ->
           [u |-> [u EXCEPT !.tx_state = 4, !.send_ready = 1],
            pin |-> 1, wrote |-> TRUE, stop |-> FALSE]
      [] u.tx_state = 4 ->
           [u |-> [u EXCEPT !.send_ready = 1, !.tx_state = 0],
            pin |-> pin, wrote |-> FALSE, stop |-> TRUE]
      [] u.tx_state = 5 ->
           LET d == DelayDec(u.delay)
           IN  [u |-> IF d = 0
                        THEN [u EXCEPT !.delay = d, !.send_ready = 1,
                                       !.tx_state = 0]
                        ELSE [u EXCEPT !.delay = d],
                pin |-> pin, wrote |-> FALSE, stop |-> FALSE]
      [] OTHER ->
           [u |-> u, pin |-> pin, wrote |-> FALSE, stop |-> FALSE]

(* TIMER1_COMPA handler on the struct and the TX pin:
   u, pin after the handler; stop = _stop_tx() was called;
   wrote = PORTB3 was written. *)
CompA(u, pin) ==
    CASE u.tx_state = 1 ->
           [u |-> [u EXCEPT !.tx_state = 2, !.send_bits = 8],
            pin |-> 0, wrote |-> TRUE, stop |-> FALSE]
      [] u.tx_state = 2 ->
           LET bits == (u.send_bits + 255) % 256
           IN  [u |-> [u EXCEPT !.send_byte = u.send_byte \div 2,
                                !.send_bits = bits,
                                !.tx_state = IF bits = 0 THEN 3 ELSE 2],
                pin |-> u.send_byte % 2, wrote |-> TRUE, stop |-> FALSE]
      [] u.tx_state = 3 ->
           [u |-> [u EXCEPT !.tx_state = 4],
            pin |-> 1, wrote |-> TRUE, stop |-> FALSE]
      [] u.tx_state = 4 ->
           [u |-> [u EXCEPT !.send_ready = 1, !.tx_state = 0],
            pin |-> pin, wrote |-> FALSE, stop |-> TRUE]
      [] u.tx_state = 5 ->
           LET d == DelayDec(u.delay)
           IN  [u |-> IF d = 0
                        THEN [u EXCEPT !.delay = d, !.send_ready = 1,
                                       !.tx_state = 0]
                        ELSE [u EXCEPT !.delay = d],
                pin |-> pin, wrote |-> FALSE, stop |-> FALSE]
      [] OTHER ->
           [u |-> u, pin |-> pin, wrote |-> FALSE, stop |-> FALSE]

(* RingPublish that leaves rx_tail alone when the ring is full. *)
RingPublish_keep_tail(u) ==
    [u EXCEPT !.rx_buf = [u.rx_buf EXCEPT ![u.rx_head] = u.recv_shift],
              !.rx_head = RingNext(u.rx_head)]

(* The AwaitHigh publication in the ring build. *)
RingPublish(u) ==
    LET head == RingNext(u.rx_head)
        put  == IF u.rx_head \in DOMAIN u.rx_buf
                  THEN [u.rx_buf EXCEPT ![u.rx_head] = u.recv_shift]
                  ELSE u.rx_buf
    IN  [u EXCEPT !.rx_buf = put,
                  !.rx_head = head,
                  !.rx_tail = IF head = u.rx_tail
                                THEN RingNext(u.rx_tail) ELSE u.rx_tail]

(* SlotPublish that keeps an unread octet. *)
SlotPublish_keep_unread(u) ==
    IF u.available = 1 THEN u
    ELSE [u EXCEPT !.recv_byte = u.recv_shift, !.available = 1]

(* The AwaitHigh publication in the single-slot build. *)
SlotPublish(u) == [u EXCEPT !.recv_byte = u.recv_shift, !.available = 1]

(* ShiftIn with the bit shifted in from the bottom. *)
ShiftIn_from_bottom(shift, read_bit) ==
    ((shift * 2) % 256) + (IF read_bit # 0 THEN 1 ELSE 0)

(* ShiftIn that sets the top bit without shifting. *)
ShiftIn_no_shift(shift, read_bit) ==
    IF read_bit # 0 THEN (shift % 128) + 128 ELSE shift

(* One data bit shifted in from the top. *)
ShiftIn(shift, read_bit) ==
    (shift \div 2) + (IF read_bit # 0 THEN 128 ELSE 0)

(* CompB that publishes on the first AwaitHigh tick, whatever the line. *)
CompB_publish_on_low(u, read_bit, ring) ==
    CASE u.rx_state \in {0, 1} ->
           [u |-> [u EXCEPT !.rx_state = 2, !.recv_bits = 8], done |-> FALSE]
      [] u.rx_state = 2 ->
           LET bits == (u.recv_bits + 255) % 256
           IN  [u |-> [u EXCEPT !.recv_shift = ShiftIn(u.recv_shift, read_bit),
                                !.recv_bits = bits,
                                !.rx_state = IF bits = 0 THEN 3 ELSE 2],
                done |-> FALSE]
      [] u.rx_state = 3 ->
           [u |-> [(IF ring THEN RingPublish(u) ELSE SlotPublish(u))
                      EXCEPT !.rx_state = 0],
            done |-> TRUE]
      [] OTHER -> [u |-> u, done |-> FALSE]

(* TIMER1_COMPB handler on the struct: u after the handler;
   done = the byte was published (_stop_rx and _enable_int0 called). *)
CompB(u, read_bit, ring) ==
    CASE u.rx_state \in {0, 1} ->
           [u |-> [u EXCEPT !.rx_state = 2, !.recv_bits = 8], done |-> FALSE]
      [] u.rx_state = 2 ->
           LET bits == (u.recv_bits + 255) % 256
           IN  [u |-> [u EXCEPT !.recv_shift = ShiftIn(u.recv_shift, read_bit),
                                !.recv_bits = bits,
                                !.rx_state = IF bits = 0 THEN 3 ELSE 2],
                done |-> FALSE]
      [] u.rx_state = 3 /\ read_bit # 0 ->
           [u |-> [(IF ring THEN RingPublish(u) ELSE SlotPublish(u))
                      EXCEPT !.rx_state = 0],
            done |-> TRUE]
      [] OTHER -> [u |-> u, done |-> FALSE]

(* Int0Ocr1b without the wrap at the top of the counter. *)
Int0Ocr1b_no_wrap(tcnt1) == tcnt1 + SERIAL_HALFBIT

(* INT0 handler: the sample time written to OCR1B. *)
Int0Ocr1b(tcnt1) ==
    IF tcnt1 >= SERIAL_HALFBIT
      THEN tcnt1 - SERIAL_HALFBIT
      ELSE tcnt1 + SERIAL_HALFBIT

(* fdserial_available in the ring build: char d = rx_head - rx_tail. *)
RingAvailable(head, tail, char_signed) ==
    LET w == (head - tail + 256) % 256
        d == IF char_signed /\ w >= 128 THEN w - 256 ELSE w
    IN  IF d < 0 THEN (d + RING_BUFFER + 256) % 256 ELSE d

(* fdserial_alarm: the three locals computed from duration. *)
AlarmTicks(duration) == ((duration * CPU_FREQ) \div PRESCALER_DIVISOR) \div 1000
AlarmCycles(duration) == AlarmTicks(duration) \div (SERIAL_TOP + 1)
AlarmRemainder(duration) ==
    (AlarmTicks(duration) - AlarmCycles(duration) * (SERIAL_TOP + 1)) % 256

(* fdserial_alarm: OCR1A = TCNT1 - remainder, an 8 bit register. *)
AlarmOcr1a(tcnt1, remainder) == (tcnt1 - remainder + 256) % 256

(* ------------------------------------------------------------------ *)
(* Reset state                                                         *)
(* ------------------------------------------------------------------ *)

(* fd_uart1 is static: all fields zero at reset. *)
UartReset ==
    [send_ready |-> 0, tx_state |-> 0, send_byte |-> 0, send_bits |-> 0,
     delay |-> 0, available |-> 0, rx_state |-> 0, recv_shift |-> 0,
     recv_bits |-> 0, recv_byte |-> 0,
     rx_buf |-> [i \in 0 .. RING_BUFFER - 1 |-> 0],
     rx_head |-> 0, rx_tail |-> 0]

LocReset ==
    [c |-> 0, idx |-> 0, tst |-> FALSE, rd |-> {}, cycles |-> 0,
     remainder |-> 0, ret |-> 0, caller |-> "main"]

(* History of a run: sent = the octets passed to fdserial_send, line =
   the levels written to the TX pin, aticks = TIMER1_COMPA handler runs
   since the last octet was armed, waited = a send was called while the
   transmitter was busy, pub = the octets published by TIMER1_COMPB,
   got = the octets returned by fdserial_recv, held = counts since the
   TX pin was last written (up to one bit period), mixed = an octet was
   published after the foreground had started reading, inits = calls
   of fdserial_init after the first, oob = fdserial_recv has read past
   the end of rx_buf, bheld = counts since INT0 or TIMER1_COMPB was
   last serviced while the B tick is enabled, breaks = bit times for
   which the remote sender held the line low in place of a stop bit,
   edges = INT0 handler runs, samples = the levels read by the DataBit
   ticks of the frame. *)
HistReset ==
    [sent |-> << >>, line |-> << >>, aticks |-> 0, waited |-> FALSE,
     inits |-> 0, oob |-> FALSE, pub |-> << >>, got |-> << >>, held |-> 0,
     mixed |-> FALSE, bheld |-> 0, breaks |-> 0, edges |-> 0,
     samples |-> << >>]

(* The MCU out of reset, main() about to call fdserial_init(): the masks
   and flags are clear, the counter is stopped, both lines are pulled high. *)
Reset(b) ==
    /\ pc = "init_130"
    /\ arg = 0
    /\ loc = LocReset
    /\ fd_uart1 = UartReset
    /\ TCNT1 = 0 /\ OCR1A = 0 /\ OCR1B = 0
    /\ TIMSK = {} /\ TIFR = {} /\ GIMSK = {} /\ GIFR = {}
    /\ TCCR1 = FALSE
    /\ tx_pin = 1 /\ rx_pin = 1
    /\ build = b
    /\ remote = [wire |-> << >>, phase |-> 0, seq |-> 0]
    /\ hist = HistReset

Builds == [ring : BOOLEAN, char_signed : BOOLEAN, wired : BOOLEAN]

(* ------------------------------------------------------------------ *)
(* Interrupts                                                          *)
(* ------------------------------------------------------------------ *)

PendingINT0 == "INTF0" \in GIFR /\ "INT0" \in GIMSK
PendingCOMPA == "OCF1A" \in TIFR /\ "OCIE1A" \in TIMSK
PendingCOMPB == "OCF1B" \in TIFR /\ "OCIE1B" \in TIMSK

(* An enabled interrupt is serviced before the next foreground
   instruction and before the counter moves on. *)
IntPending == PendingINT0 \/ PendingCOMPA \/ PendingCOMPB

(* A falling edge on the RX pin sets INTF0 (MCUCR ISC01). *)
EdgeFlag(old, new) == IF old = 1 /\ new = 0 THEN {"INTF0"} ELSE {}

(* ISR(INT0_vect) *)
ISR_INT0 ==
    /\ PendingINT0
    /\ GIFR' = GIFR \ {"INTF0"}
    /\ OCR1B' = Int0Ocr1b(TCNT1)
    /\ GIMSK' = ClearBits(GIMSK, {"INT0"})
    /\ TIFR' = WriteOnes(TIFR, {"OCF1B"})
    /\ TIMSK' = OrBits(TIMSK, {"OCIE1B"})
    /\ hist' = [hist EXCEPT !.bheld = 0, !.edges = hist.edges + 1]
    /\ UNCHANGED << pc, arg, loc, fd_uart1, TCNT1, OCR1A, TCCR1, tx_pin,
                    rx_pin, build, remote >>

(* ISR(TIMER1_COMPA_vect) *)
ISR_TIMER1_COMPA ==
    /\ PendingCOMPA
    /\ \E r \in {CompA(fd_uart1, tx_pin)} :
       LET rx == IF build.wired THEN r.pin ELSE rx_pin
       IN  /\ fd_uart1' = r.u
           /\ tx_pin' = r.pin
           /\ rx_pin' = rx
           /\ GIFR' = GIFR \cup EdgeFlag(rx_pin, rx)
           /\ TIMSK' = IF r.stop THEN ClearBits(TIMSK, {"OCIE1A"}) ELSE TIMSK
           /\ hist' = [hist EXCEPT
                         !.aticks = Min(hist.aticks + 1, 12),
                         !.line = IF r.wrote THEN Append(hist.line, r.pin)
                                             ELSE hist.line,
                         !.held = IF r.wrote THEN 0 ELSE hist.held]
    /\ TIFR' = TIFR \ {"OCF1A"}
    /\ UNCHANGED << pc, arg, loc, TCNT1, OCR1A, OCR1B, GIMSK, TCCR1, build,
                    remote >>

(* ISR(TIMER1_COMPB_vect) *)
ISR_TIMER1_COMPB ==
    /\ PendingCOMPB
    /\ \E r \in {CompB(fd_uart1, rx_pin, build.ring)} :
           /\ fd_uart1' = r.u
           /\ TIMSK' = IF r.done THEN ClearBits(TIMSK, {"OCIE1B"}) ELSE TIMSK
           /\ GIFR' = IF r.done THEN WriteOnes(GIFR, {"INTF0"}) ELSE GIFR
           /\ GIMSK' = IF r.done THEN OrBits(GIMSK, {"INT0"}) ELSE GIMSK
           /\ hist' = IF r.done
                        THEN [hist EXCEPT
                                !.pub = Append(hist.pub, fd_uart1.recv_shift),
                                !.mixed = hist.mixed \/ hist.got # << >>
                                          \/ pc # "idle",
                                !.bheld = 0]
                        ELSE [hist EXCEPT
                                !.bheld = 0,
                                !.samples =
                                   IF fd_uart1.rx_state \in {0, 1} THEN << >>
                                   ELSE IF fd_uart1.rx_state = 2
                                     THEN Append(hist.samples, rx_pin)
                                   ELSE hist.samples]
    /\ TIFR' = TIFR \ {"OCF1B"}
    /\ UNCHANGED << pc, arg, loc, TCNT1, OCR1A, OCR1B, TCCR1, tx_pin, rx_pin,
                    build, remote >>

(* ------------------------------------------------------------------ *)
(* Timer/counter 1 and the remote sender                               *)
(* ------------------------------------------------------------------ *)

(* The statements at which the foreground spins or is outside the API:
   any time may pass there.  A straight run of statements is short: the
   counter moves on during it only to reach an event that is at most
   FgWindow counts ahead. *)
Waiting ==
    pc \in {"idle", "send_197", "recv_221", "recv_234", "alarm_258",
            "delay_280"}

(* Counts from TCNT1 until the counter next equals p. *)
Dist(p) == ((p - TCNT1 + Period - 1) % Period) + 1

(* The counter values at which something happens: a compare match, a
   bit boundary of the remote sender, or the start of its next frame. *)
Events(F) ==
    ({OCR1A, OCR1B} \cap (0 .. SERIAL_TOP))
      \cup (IF remote.wire # << >> \/ (~build.wired /\ remote.seq < F)
              THEN {remote.phase} ELSE {})

(* The counts up to FgWindow before the counter equals e. *)
Near(e) == {(e - k + Period) % Period : k \in 0 .. FgWindow}

(* The counter values at which the foreground may start a call: the
   phases P and the counts near an event. *)
Points(P, F) == P \cup UNION {Near(e) : e \in Events(F)}

Nearest(S) == CHOOSE p \in S : \A q \in S : Dist(p) <= Dist(q)

Advance(P, F) ==
    IF pc = "idle"
      THEN IF Points(P, F) = {} THEN Period
           ELSE Dist(Nearest(Points(P, F)))
      ELSE IF Events(F) = {} THEN Period
           ELSE Dist(Nearest(Events(F)))

(* The frame of the k-th octet of the remote sender (the octet is k).
   The last element ends the stop bit. *)
RemoteFrame(k) == Tail(Frame(k)) \o << 1 >>

(* The counter advances to the next point; a compare match sets its flag
   (enabled or not); the remote sender drives its next bit, or, on an
   idle line, may start one of at most F frames at its phase, and after
   a frame picks the phase of the next among P. *)
Tick(P, F) ==
    /\ TCCR1
    /\ ~IntPending
    /\ \E d \in {Advance(P, F)}, busy \in {remote.wire # << >>} :
       LET t == (TCNT1 + d) % Period
           may == ~busy /\ ~build.wired /\ remote.seq < F /\ t = remote.phase
       IN  /\ ~Waiting => d <= FgWindow
           /\ TCNT1' = t
           /\ TIFR' = TIFR \cup (IF t = OCR1A THEN {"OCF1A"} ELSE {})
                           \cup (IF t = OCR1B THEN {"OCF1B"} ELSE {})
           /\ hist' = [hist EXCEPT
                         !.held = Min(hist.held + d, Period),
                         !.bheld = IF "OCIE1B" \in TIMSK
                                     THEN Min(hist.bheld + d, 2 * Period)
                                     ELSE 0]
           /\ \E start \in {FALSE, may}, next \in (IF busy THEN P ELSE {0}) :
                LET rx == IF busy /\ t = remote.phase THEN Head(remote.wire)
                          ELSE IF start THEN 0 ELSE rx_pin
                IN  /\ rx_pin' = rx
                    /\ GIFR' = GIFR \cup EdgeFlag(rx_pin, rx)
                    /\ remote' =
                         IF busy /\ t = remote.phase
                           THEN IF Len(remote.wire) = 1
                                  THEN [remote EXCEPT !.wire = << >>,
                                                      !.phase = next]
                                  ELSE [remote EXCEPT
                                          !.wire = Tail(remote.wire)]
                         ELSE IF start
                           THEN [remote EXCEPT
                                   !.wire = RemoteFrame(remote.seq + 1),
                                   !.seq = remote.seq + 1]
                         ELSE remote
    /\ UNCHANGED << pc, arg, loc, fd_uart1, OCR1A, OCR1B, TIMSK, GIMSK,
                    TCCR1, tx_pin, build >>

(* ------------------------------------------------------------------ *)
(* Foreground: the API, one C statement per step                        *)
(* ------------------------------------------------------------------ *)

(* fdserial_send without the wait for the previous octet. *)
SendMayProceed_no_wait(u) == TRUE

(* while (! fd_uart1.send_ready) { } *)
SendMayProceed(u) == u.send_ready # 0

(* while (! fd_uart1.send_ready) { } in fdserial_alarm / fdserial_delay *)
AlarmMayProceed(u) == u.send_ready # 0

(* The memory read by rx_buf[i]: an index past the array reads whatever
   lies behind it. *)
BufRead(u, i) == IF i \in DOMAIN u.rx_buf THEN {u.rx_buf[i]} ELSE Byte

(* void fdserial_init(void) *)
fdserial_init ==
    /\ pc \in {"init_130", "init_131", "init_133", "init_134", "init_137",
               "init_138", "init_144", "init_145", "init_146", "init_151",
               "init_157", "init_159", "init_64", "init_66r", "init_66w"}
    /\ ~IntPending
    /\ UNCHANGED << arg, TIMSK, TIFR, build, remote >>
    /\ CASE pc = "init_130" ->
              /\ fd_uart1' = [fd_uart1 EXCEPT !.send_ready = 1]
              /\ pc' = "init_131"
              /\ UNCHANGED << loc, TCNT1, OCR1A, OCR1B, GIMSK, GIFR, TCCR1,
                              tx_pin, rx_pin, hist >>
         [] pc = "init_131" ->
              /\ fd_uart1' = [fd_uart1 EXCEPT !.tx_state = 0]
              /\ pc' = "init_133"
              /\ UNCHANGED << loc, TCNT1, OCR1A, OCR1B, GIMSK, GIFR, TCCR1,
                              tx_pin, rx_pin, hist >>
         [] pc = "init_133" ->
              /\ fd_uart1' = [fd_uart1 EXCEPT !.available = 0]
              /\ pc' = "init_134"
              /\ UNCHANGED << loc, TCNT1, OCR1A, OCR1B, GIMSK, GIFR, TCCR1,
                              tx_pin, rx_pin, hist >>
         [] pc = "init_134" ->
              /\ fd_uart1' = [fd_uart1 EXCEPT !.rx_state = 0]
              /\ pc' = IF build.ring THEN "init_137" ELSE "init_144"
              /\ UNCHANGED << loc, TCNT1, OCR1A, OCR1B, GIMSK, GIFR, TCCR1,
                              tx_pin, rx_pin, hist >>
         [] pc = "init_137" ->
              /\ fd_uart1' = [fd_uart1 EXCEPT !.rx_head = 0]
              /\ pc' = "init_138"
              /\ UNCHANGED << loc, TCNT1, OCR1A, OCR1B, GIMSK, GIFR, TCCR1,
                              tx_pin, rx_pin, hist >>
         [] pc = "init_138" ->
              /\ fd_uart1' = [fd_uart1 EXCEPT !.rx_tail = 0]
              /\ pc' = "init_144"
              /\ UNCHANGED << loc, TCNT1, OCR1A, OCR1B, GIMSK, GIFR, TCCR1,
                              tx_pin, rx_pin, hist >>
         [] pc = "init_144" ->
              /\ TCNT1' = 0
              /\ pc' = "init_145"
              /\ UNCHANGED << loc, fd_uart1, OCR1A, OCR1B, GIMSK, GIFR,
                              TCCR1, tx_pin, rx_pin, hist >>
         [] pc = "init_145" ->
              /\ OCR1A' = 16
              /\ pc' = "init_146"
              /\ UNCHANGED << loc, fd_uart1, TCNT1, OCR1B, GIMSK, GIFR,
                              TCCR1, tx_pin, rx_pin, hist >>
         [] pc = "init_146" ->
              /\ OCR1B' = 32
              /\ pc' = "init_151"
              /\ UNCHANGED << loc, fd_uart1, TCNT1, OCR1A, GIMSK, GIFR,
                              TCCR1, tx_pin, rx_pin, hist >>
         [] pc = "init_151" ->
              LET rx == IF build.wired THEN 1 ELSE rx_pin
              IN  /\ tx_pin' = 1
                  /\ rx_pin' = rx
                  /\ hist' = [hist EXCEPT !.line = Append(hist.line, 1),
                                          !.held = 0]
                  /\ pc' = "init_157"
                  /\ UNCHANGED << loc, fd_uart1, TCNT1, OCR1A, OCR1B, GIMSK,
                                  GIFR, TCCR1 >>
         [] pc = "init_157" ->
              /\ TCCR1' = FALSE
              /\ pc' = "init_159"
              /\ UNCHANGED << loc, fd_uart1, TCNT1, OCR1A, OCR1B, GIMSK,
                              GIFR, tx_pin, rx_pin, hist >>
         [] pc = "init_159" ->
              /\ TCCR1' = TRUE
              /\ pc' = "init_64"
              /\ UNCHANGED << loc, fd_uart1, TCNT1, OCR1A, OCR1B, GIMSK,
                              GIFR, tx_pin, rx_pin, hist >>
         [] pc = "init_64" ->
              /\ GIFR' = WriteOnes(GIFR, {"INTF0"})
              /\ pc' = "init_66r"
              /\ UNCHANGED << loc, fd_uart1, TCNT1, OCR1A, OCR1B, GIMSK,
                              TCCR1, tx_pin, rx_pin, hist >>
         [] pc = "init_66r" ->
              /\ loc' = [loc EXCEPT !.rd = GIMSK]
              /\ pc' = "init_66w"
              /\ UNCHANGED << fd_uart1, TCNT1, OCR1A, OCR1B, GIMSK, GIFR,
                              TCCR1, tx_pin, rx_pin, hist >>
         [] pc = "init_66w" ->
              /\ GIMSK' = OrBits(loc.rd, {"INT0"})
              /\ loc' = [loc EXCEPT !.rd = {}]
              /\ pc' = "idle"
              /\ UNCHANGED << fd_uart1, TCNT1, OCR1A, OCR1B, GIFR, TCCR1,
                              tx_pin, rx_pin, hist >>

(* void fdserial_send(unsigned char send_arg) *)
fdserial_send ==
    /\ pc \in {"send_197", "send_199", "send_200", "send_201", "send_202",
               "send_82r", "send_82w"}
    /\ ~IntPending
    /\ UNCHANGED << arg, TCNT1, OCR1B, TIFR, GIMSK, GIFR, TCCR1, tx_pin,
                    rx_pin, build, remote >>
    /\ CASE pc = "send_197" ->
              /\ SendMayProceed(fd_uart1)
              /\ pc' = "send_199"
              /\ UNCHANGED << loc, fd_uart1, OCR1A, TIMSK, hist >>
         [] pc = "send_199" ->
              /\ OCR1A' = TCNT1
              /\ pc' = "send_200"
              /\ UNCHANGED << loc, fd_uart1, TIMSK, hist >>
         [] pc = "send_200" ->
              /\ fd_uart1' = [fd_uart1 EXCEPT !.send_ready = 0]
              /\ pc' = "send_201"
              /\ UNCHANGED << loc, OCR1A, TIMSK, hist >>
         [] pc = "send_201" ->
              /\ fd_uart1' = [fd_uart1 EXCEPT !.send_byte = arg]
              /\ pc' = "send_202"
              /\ UNCHANGED << loc, OCR1A, TIMSK, hist >>
         [] pc = "send_202" ->
              /\ fd_uart1' = [fd_uart1 EXCEPT !.tx_state = 1]
              /\ hist' = [hist EXCEPT !.aticks = 0]
              /\ pc' = "send_82r"
              /\ UNCHANGED << loc, OCR1A, TIMSK >>
         [] pc = "send_82r" ->
              /\ loc' = [loc EXCEPT !.rd = TIMSK]
              /\ pc' = "send_82w"
              /\ UNCHANGED << fd_uart1, OCR1A, TIMSK, hist >>
         [] pc = "send_82w" ->
              /\ TIMSK' = StartTxWrite(loc.rd)
              /\ loc' = [loc EXCEPT !.rd = {}]
              /\ pc' = "idle"
              /\ UNCHANGED << fd_uart1, OCR1A, hist >>

(* unsigned char fdserial_recv() *)
fdserial_recv ==
    /\ pc \in {"recv_221", "recv_223i", "recv_223", "recv_227", "recv_228",
               "recv_230r", "recv_230w", "recv_234", "recv_235", "recv_236",
               "recv_237", "recv_240"}
    /\ ~IntPending
    /\ UNCHANGED << arg, TCNT1, OCR1A, OCR1B, TIMSK, TIFR, GIMSK, GIFR, TCCR1,
                    tx_pin, rx_pin, build, remote >>
    /\ CASE pc = "recv_221" ->
              /\ fd_uart1.rx_head # fd_uart1.rx_tail
              /\ pc' = "recv_223i"
              /\ UNCHANGED << loc, fd_uart1, hist >>
         [] pc = "recv_223i" ->
              /\ loc' = [loc EXCEPT !.idx = fd_uart1.rx_tail]
              /\ pc' = "recv_223"
              /\ UNCHANGED << fd_uart1, hist >>
         [] pc = "recv_223" ->
              /\ \E v \in BufRead(fd_uart1, loc.idx) :
                   loc' = [loc EXCEPT !.c = v, !.idx = 0]
              /\ hist' = [hist EXCEPT !.oob = hist.oob
                                           \/ loc.idx \notin DOMAIN fd_uart1.rx_buf]
              /\ pc' = "recv_227"
              /\ UNCHANGED fd_uart1
         [] pc = "recv_227" ->
              /\ pc' = IF fd_uart1.rx_tail = RING_BUFFER - 1
                         THEN "recv_228" ELSE "recv_230r"
              /\ UNCHANGED << loc, fd_uart1, hist >>
         [] pc = "recv_228" ->
              /\ fd_uart1' = [fd_uart1 EXCEPT !.rx_tail = 0]
              /\ pc' = "recv_240"
              /\ UNCHANGED << loc, hist >>
         [] pc = "recv_230r" ->
              /\ loc' = [loc EXCEPT !.idx = fd_uart1.rx_tail]
              /\ pc' = "recv_230w"
              /\ UNCHANGED << fd_uart1, hist >>
         [] pc = "recv_230w" ->
              /\ fd_uart1' = [fd_uart1 EXCEPT !.rx_tail = (loc.idx + 1) % 256]
              /\ loc' = [loc EXCEPT !.idx = 0]
              /\ pc' = "recv_240"
              /\ UNCHANGED hist
         [] pc = "recv_234" ->
              /\ fd_uart1.available # 0
              /\ pc' = "recv_235"
              /\ UNCHANGED << loc, fd_uart1, hist >>
         [] pc = "recv_235" ->
              /\ loc' = [loc EXCEPT !.c = fd_uart1.recv_byte]
              /\ pc' = "recv_236"
              /\ UNCHANGED << fd_uart1, hist >>
         [] pc = "recv_236" ->
              /\ fd_uart1' = [fd_uart1 EXCEPT !.recv_byte = 0]
              /\ pc' = "recv_237"
              /\ UNCHANGED << loc, hist >>
         [] pc = "recv_237" ->
              /\ fd_uart1' = [fd_uart1 EXCEPT !.available = 0]
              /\ pc' = "recv_240"
              /\ UNCHANGED << loc, hist >>
         [] pc = "recv_240" ->
              /\ loc' = [loc EXCEPT !.ret = loc.c, !.c = 0]
              /\ hist' = [hist EXCEPT !.got = Append(hist.got, loc.c)]
              /\ pc' = "idle"
              /\ UNCHANGED fd_uart1

(* uint8_t fdserial_available(void).  The ring build loads rx_head and
   rx_tail one after the other, in an order the compiler chooses:
   loc.tst tells that rx_head was loaded first, loc.idx is the value of
   the first load. *)
fdserial_available ==
    /\ pc \in {"avail_170", "avail_170b", "avail_179"}
    /\ ~IntPending
    /\ UNCHANGED << arg, fd_uart1, TCNT1, OCR1A, OCR1B, TIMSK, TIFR, GIMSK,
                    GIFR, TCCR1, tx_pin, rx_pin, build, remote, hist >>
    /\ CASE pc = "avail_170" ->
              IF build.ring
                THEN /\ \E first \in BOOLEAN :
                          loc' = [loc EXCEPT !.tst = first,
                                             !.idx = IF first
                                                       THEN fd_uart1.rx_head
                                                       ELSE fd_uart1.rx_tail]
                     /\ pc' = "avail_170b"
                ELSE /\ loc' = [loc EXCEPT !.ret = fd_uart1.available]
                     /\ pc' = "avail_179"
         [] pc = "avail_170b" ->
              /\ loc' = [loc EXCEPT
                           !.ret = IF loc.tst
                                     THEN RingAvailable(loc.idx,
                                                        fd_uart1.rx_tail,
                                                        build.char_signed)
                                     ELSE RingAvailable(fd_uart1.rx_head,
                                                        loc.idx,
                                                        build.char_signed),
                           !.tst = FALSE, !.idx = 0]
              /\ pc' = "avail_179"
         [] pc = "avail_179" ->
              /\ loc' = [loc EXCEPT !.ret = 0]
              /\ pc' = "idle"

(* void fdserial_alarm(uint32_t duration), and the spin of
   void fdserial_delay(uint32_t duration) that follows it *)
fdserial_alarm ==
    /\ pc \in {"alarm_254", "alarm_258", "alarm_260", "alarm_261",
               "alarm_262", "alarm_263", "delay_280"}
    /\ ~IntPending
    /\ UNCHANGED << arg, TCNT1, OCR1B, TIMSK, TIFR, GIMSK, GIFR, TCCR1,
                    tx_pin, rx_pin, build, remote, hist >>
    /\ CASE pc = "alarm_254" ->
              /\ loc' = [loc EXCEPT !.cycles = AlarmCycles(arg),
                                    !.remainder = AlarmRemainder(arg)]
              /\ pc' = "alarm_258"
              /\ UNCHANGED << fd_uart1, OCR1A >>
         [] pc = "alarm_258" ->
              /\ AlarmMayProceed(fd_uart1)
              /\ pc' = "alarm_260"
              /\ UNCHANGED << loc, fd_uart1, OCR1A >>
         [] pc = "alarm_260" ->
              /\ OCR1A' = AlarmOcr1a(TCNT1, loc.remainder)
              /\ pc' = "alarm_261"
              /\ UNCHANGED << loc, fd_uart1 >>
         [] pc = "alarm_261" ->
              /\ fd_uart1' = [fd_uart1 EXCEPT !.delay = loc.cycles]
              /\ pc' = "alarm_262"
              /\ UNCHANGED << loc, OCR1A >>
         [] pc = "alarm_262" ->
              /\ fd_uart1' = [fd_uart1 EXCEPT !.send_ready = 0]
              /\ pc' = "alarm_263"
              /\ UNCHANGED << loc, OCR1A >>
         [] pc = "alarm_263" ->
              /\ fd_uart1' = [fd_uart1 EXCEPT !.tx_state = 5]
              /\ loc' = [loc EXCEPT !.cycles = 0, !.remainder = 0]
              /\ pc' = IF loc.caller = "delay" THEN "delay_280" ELSE "idle"
              /\ UNCHANGED OCR1A
         [] pc = "delay_280" ->
              /\ AlarmMayProceed(fd_uart1)
              /\ loc' = [loc EXCEPT !.caller = "main"]
              /\ pc' = "idle"
              /\ UNCHANGED << fd_uart1, OCR1A >>

(* ------------------------------------------------------------------ *)
(* The callers of the API                                              *)
(* ------------------------------------------------------------------ *)

(* main() calls fdserial_send(b).  With fresh the history starts over
   at this call. *)
CallSend(b, fresh) ==
    /\ pc = "idle"
    /\ ~IntPending
    /\ pc' = "send_197"
    /\ arg' = b
    /\ hist' = IF fresh \/ hist.sent = << >>
                 THEN [hist EXCEPT !.sent = << b >>, !.line = << >>,
                                   !.aticks = 0, !.got = << >>,
                                   !.pub = << >>]
                 ELSE [hist EXCEPT !.sent = Append(hist.sent, b),
                                   !.waited = hist.waited
                                              \/ fd_uart1.send_ready = 0]
    /\ UNCHANGED << loc, fd_uart1, TCNT1, OCR1A, OCR1B, TIMSK, TIFR, GIMSK,
                    GIFR, TCCR1, tx_pin, rx_pin, build, remote >>

(* main() calls fdserial_recv(). *)
CallRecv ==
    /\ pc = "idle"
    /\ ~IntPending
    /\ pc' = IF build.ring THEN "recv_221" ELSE "recv_234"
    /\ UNCHANGED << arg, loc, fd_uart1, TCNT1, OCR1A, OCR1B, TIMSK, TIFR,
                    GIMSK, GIFR, TCCR1, tx_pin, rx_pin, build, remote, hist >>

(* main() calls fdserial_available(). *)
CallAvailable ==
    /\ pc = "idle"
    /\ ~IntPending
    /\ pc' = "avail_170"
    /\ UNCHANGED << arg, loc, fd_uart1, TCNT1, OCR1A, OCR1B, TIMSK, TIFR,
                    GIMSK, GIFR, TCCR1, tx_pin, rx_pin, build, remote, hist >>

(* main() calls fdserial_alarm(d), or fdserial_delay(d) which calls it. *)
CallAlarm(d, who) ==
    /\ pc = "idle"
    /\ ~IntPending
    /\ pc' = "alarm_254"
    /\ arg' = d
    /\ loc' = [loc EXCEPT !.caller = who]
    /\ UNCHANGED << fd_uart1, TCNT1, OCR1A, OCR1B, TIMSK, TIFR, GIMSK, GIFR,
                    TCCR1, tx_pin, rx_pin, build, remote, hist >>

(* main() calls fdserial_init() again. *)
CallInit ==
    /\ pc = "idle"
    /\ ~IntPending
    /\ pc' = "init_130"
    /\ hist' = [hist EXCEPT !.inits = hist.inits + 1]
    /\ UNCHANGED << arg, loc, fd_uart1, TCNT1, OCR1A, OCR1B, TIMSK, TIFR,
                    GIMSK, GIFR, TCCR1, tx_pin, rx_pin, build, remote >>

(* The phases, besides those near an event, at which the foreground and
   the remote sender act. *)
Phases == {p \in 0 .. SERIAL_TOP : p % PhaseStep = 0}

(* The octets of the runs that send more than one. *)
TxBytes == {0, 85, 165, 255}

TxIdle == fd_uart1.send_ready = 1 /\ fd_uart1.tx_state = 0

(* ------------------------------------------------------------------ *)
(* Transmission of single octets: every octet, from an idle            *)
(* transmitter, nothing on the RX line.                                *)
(* ------------------------------------------------------------------ *)
InitTx == Reset([ring |-> FALSE, char_signed |-> TRUE, wired |-> FALSE])

NextTx ==
    \/ fdserial_init
    \/ \E b \in (IF hist.sent = << >> THEN Byte ELSE TxBytes) :
         TxIdle /\ CallSend(b, TRUE)
    \/ fdserial_send
    \/ ISR_TIMER1_COMPA
    \/ Tick(Phases, 0)

SpecTx == InitTx /\ [][NextTx]_vars

(* C1: after fdserial_send(b) called with the transmitter idle, the n-th
   TIMER1_COMPA handler run has driven the TX pin through the first n
   levels of start (low), b0 .. b7, stop (high); the pin is written by
   nothing else; the 11th run sets send_ready and returns tx_state to
   Idle, and no further run follows. *)
C1_SendFrame ==
    hist.sent # << >> =>
      LET b == hist.sent[Len(hist.sent)]
          n == hist.aticks
      IN  /\ n <= 11
          /\ hist.line = SubSeq(Frame(b), 1, Min(n, 10))
          /\ tx_pin = (IF n = 0 THEN 1 ELSE Frame(b)[Min(n, 10)])
          /\ n = 11 => TxIdle /\ "OCIE1A" \notin TIMSK
          /\ n \in 1 .. 10 =>
               fd_uart1.send_ready = 0 /\ fd_uart1.tx_state # 0

(* 0x55 went out as low, H L H L H L H L, high and the transmitter is
   idle again. *)
C1_Witness ==
    /\ hist.sent = << 85 >>
    /\ hist.line = << 0, 1, 0, 1, 0, 1, 0, 1, 0, 1 >>
    /\ hist.aticks = 11
    /\ TxIdle

(* ------------------------------------------------------------------ *)
(* Transmission of several octets in a row.                            *)
(* ------------------------------------------------------------------ *)
NextTxSeq ==
    \/ fdserial_init
    \/ \E b \in TxBytes : Len(hist.sent) < MaxSends /\ CallSend(b, FALSE)
    \/ fdserial_send
    \/ ISR_TIMER1_COMPA
    \/ Tick(Phases, 0)

SpecTxSeq == InitTx /\ [][NextTxSeq]_vars

RECURSIVE FramesOf(_)
FramesOf(s) == IF s = << >> THEN << >> ELSE Frame(Head(s)) \o FramesOf(Tail(s))

IsPrefix(s, t) == Len(s) <= Len(t) /\ s = SubSeq(t, 1, Len(s))

(* The foreground is past the wait of fdserial_send. *)
Arming == pc \in {"send_199", "send_200", "send_201", "send_202",
                  "send_82r", "send_82w"}

(* The calls of fdserial_send that got past the wait. *)
Armed == Len(hist.sent) - (IF pc = "send_197" THEN 1 ELSE 0)

(* C3: the levels on the TX line are the frames of the octets passed to
   fdserial_send, in call order; a call gets past its wait, and so
   changes send_byte and tx_state, only when every earlier frame is out
   and its stop bit has been held for a bit period; and the start bit
   of a later frame is driven only after the stop bit before it has
   been held for a bit period. *)
C3_FramesInOrder ==
    /\ [](/\ hist.sent # << >> => IsPrefix(hist.line, FramesOf(hist.sent))
          /\ (Arming \/ fd_uart1.tx_state = 1) =>
               /\ Len(hist.line) = 10 * (Armed - 1)
               /\ Armed > 1 => hist.held >= Period
          /\ fd_uart1.tx_state \in {2, 3} =>
               Len(hist.line) > 10 * (Armed - 1))
    /\ [][(/\ Len(hist.line') = Len(hist.line) + 1
           /\ hist.sent # << >>
           /\ Len(hist.line) > 0
           /\ Len(hist.line) % 10 = 0)
          => (hist.held >= Period /\ hist.line'[Len(hist.line')] = 0)]_vars

(* Two different octets went out back to back, the second one called
   while the first was still being sent. *)
C3_Witness ==
    /\ Len(hist.sent) = 2
    /\ hist.sent[1] # hist.sent[2]
    /\ hist.waited
    /\ hist.line = FramesOf(hist.sent)
    /\ TxIdle

(* ------------------------------------------------------------------ *)
(* Loopback: TX wired to RX; one octet is sent and then read back:     *)
(* the octets of TxBytes at every phase of the counter, and every      *)
(* octet at the phases of Phases.                                      *)
(* ------------------------------------------------------------------ *)
InitLoop ==
    \E r \in BOOLEAN :
      Reset([ring |-> r, char_signed |-> TRUE, wired |-> TRUE])

AllPhases == 0 .. SERIAL_TOP

NextLoop ==
    \/ fdserial_init
    \/ \E b \in Byte :
         /\ hist.sent = << >>
         /\ b \in TxBytes \/ TCNT1 \in Phases
         /\ CallSend(b, TRUE)
    \/ fdserial_send
    \/ hist.sent # << >> /\ hist.got = << >> /\ CallRecv
    \/ fdserial_recv
    \/ ISR_INT0
    \/ ISR_TIMER1_COMPA
    \/ ISR_TIMER1_COMPB
    \/ Tick(IF hist.sent = << >> THEN AllPhases ELSE {}, 0)

SpecLoop == InitLoop /\ [][NextLoop]_vars

(* C2: with TX wired to RX, fdserial_send(b) called at any phase of the
   counter followed by fdserial_recv() returns b; on the way the bits
   sampled so far are the low bits of b, and the octet published is b. *)
C2_Loopback ==
    hist.sent # << >> =>
      LET b == hist.sent[1]
          n == 8 - fd_uart1.recv_bits
      IN  /\ fd_uart1.rx_state = 2 /\ hist.pub = << >> =>
               fd_uart1.recv_shift \div (2 ^ (8 - n)) = b % (2 ^ n)
          /\ fd_uart1.rx_state = 3 => fd_uart1.recv_shift = b
          /\ hist.pub # << >> => hist.pub = << b >>
          /\ pc = "recv_240" => loc.c = b
          /\ hist.got # << >> => hist.got = << b >>

(* 0xA5 was sent in the single-slot build and fdserial_recv returned. *)
C2_Witness ==
    /\ hist.sent = << 165 >>
    /\ hist.got = << 165 >>
    /\ ~build.ring
    /\ pc = "idle"
    /\ TxIdle

(* ------------------------------------------------------------------ *)
(* Reception in the ring build: the remote sender sends the octets     *)
(* 1, 2, 3, ... and the foreground calls fdserial_recv and             *)
(* fdserial_available at any time.  A run stops reading once a read    *)
(* has gone past the end of rx_buf.                                    *)
(* ------------------------------------------------------------------ *)
InitRing ==
    \E s \in BOOLEAN :
      Reset([ring |-> TRUE, char_signed |-> s, wired |-> FALSE])

NextRing ==
    \/ fdserial_init
    \/ Len(hist.got) < MaxRecvs /\ ~hist.oob /\ CallRecv
    \/ fdserial_recv
    \/ CallAvailable
    \/ fdserial_available
    \/ ISR_INT0
    \/ ISR_TIMER1_COMPB
    \/ Tick(Phases, MaxFrames)

SpecRing == InitRing /\ [][NextRing]_vars

(* The same, with the remote sender silent once the foreground has
   started to read: a burst of up to MaxFrames octets, then the reads. *)
NextBurst ==
    \/ fdserial_init
    \/ Len(hist.got) < MaxRecvs /\ ~hist.oob /\ CallRecv
    \/ fdserial_recv
    \/ CallAvailable
    \/ fdserial_available
    \/ ISR_INT0
    \/ ISR_TIMER1_COMPB
    \/ Tick(Phases, IF hist.got = << >> /\ pc = "idle" THEN MaxFrames ELSE 0)

SpecBurst == InitRing /\ [][NextBurst]_vars

(* The last n elements of s (all of s when it has fewer). *)
LastOf(s, n) == SubSeq(s, Max(1, Len(s) - n + 1), Len(s))

(* The octets waiting in the ring, by the indices. *)
RingCount == (fd_uart1.rx_head - fd_uart1.rx_tail + RING_BUFFER) % RING_BUFFER

(* C4 as amended: rx_buf of N = RING_BUFFER entries holds N - 1 octets.
   When the octets s were published before the foreground started to
   read, the calls of fdserial_recv return the last min(|s|, N - 1)
   octets of s in order, and then the ring is empty. *)
C4_RingKeepsLast ==
    ~hist.mixed =>
      LET keep == LastOf(hist.pub, RING_BUFFER - 1)
      IN  /\ IsPrefix(hist.got, keep)
          /\ pc = "recv_240" => loc.c = keep[Len(hist.got) + 1]
          /\ pc \in {"idle", "recv_221"} =>
               RingCount = Len(keep) - Len(hist.got)

(* N + 2 octets were published, then N - 1 calls returned the last N - 1
   of them (4, 5, 6 of 1 .. 6 when N = 4), and the ring is empty. *)
C4_Witness ==
    /\ ~hist.mixed
    /\ Len(hist.pub) = RING_BUFFER + 2
    /\ hist.pub = [i \in 1 .. RING_BUFFER + 2 |-> i]
    /\ hist.got = [i \in 1 .. RING_BUFFER - 1 |-> i + 3]
    /\ pc = "idle"
    /\ fd_uart1.rx_head = fd_uart1.rx_tail

(* C4 as claimed: the calls return the last min(|s|, N) octets of s. *)
C4_RingKeepsLastN ==
    ~hist.mixed =>
      /\ IsPrefix(hist.got, LastOf(hist.pub, RING_BUFFER))
      /\ pc = "recv_240" =>
           loc.c = LastOf(hist.pub, RING_BUFFER)[Len(hist.got) + 1]

(* C5: under every interleaving of fdserial_recv with the publications,
   the octets returned are octets that were received, in wire order and
   none twice (the remote sender sends 1, 2, 3, ...: strictly
   increasing), so an octet that is lost is older than every octet
   delivered after it. *)
C5_RingInOrder ==
    LET ret == IF pc = "recv_240" THEN Append(hist.got, loc.c) ELSE hist.got
    IN  \A i \in 1 .. Len(ret) :
          /\ \E j \in 1 .. Len(hist.pub) : ret[i] = hist.pub[j]
          /\ i > 1 => ret[i - 1] < ret[i]

(* C6: fdserial_available returns (rx_head - rx_tail + N) mod N for all
   rx_head, rx_tail in [0, N) in the ring build, and 0 or 1 in the
   single-slot build. *)
C6_AvailableCount ==
    [][(pc \in {"avail_170", "avail_170b"} /\ pc' = "avail_179") =>
         IF build.ring
           THEN LET head == IF loc.tst THEN loc.idx ELSE fd_uart1.rx_head
                    tail == IF loc.tst THEN fd_uart1.rx_tail ELSE loc.idx
                IN  (head \in 0 .. RING_BUFFER - 1
                     /\ tail \in 0 .. RING_BUFFER - 1)
                    => loc'.ret = (head - tail + RING_BUFFER) % RING_BUFFER
           ELSE loc'.ret \in {0, 1}]_vars

(* ------------------------------------------------------------------ *)
(* fdserial_alarm and fdserial_delay, after fdserial_init or after a   *)
(* completed send.  The timer runs, every enabled interrupt is         *)
(* serviced and the foreground keeps executing.                        *)
(* ------------------------------------------------------------------ *)
InitAlarm == Reset([ring |-> FALSE, char_signed |-> TRUE, wired |-> FALSE])

NextAlarm ==
    \/ fdserial_init
    \/ \E d \in 1 .. MaxDuration, who \in {"main", "delay"} : CallAlarm(d, who)
    \/ fdserial_alarm
    \/ \E b \in {85} : TxIdle /\ CallSend(b, TRUE)
    \/ fdserial_send
    \/ ISR_TIMER1_COMPA
    \/ Tick(Phases, 0)

SpecAlarm ==
    /\ InitAlarm
    /\ [][NextAlarm]_vars
    /\ WF_vars(Tick(Phases, 0))
    /\ WF_vars(ISR_TIMER1_COMPA)
    /\ WF_vars(fdserial_init)
    /\ WF_vars(fdserial_alarm)
    /\ WF_vars(fdserial_send)

(* C8: fdserial_delay terminates: once fdserial_alarm has armed the
   Delay state and the foreground spins on send_ready, the spin
   eventually exits. *)
C8_DelayTerminates == (pc = "delay_280") ~> (pc = "idle")

(* ceil(duration * F / P / 1000 / (TOP + 1)) *)
CeilPeriods(duration) ==
    (((duration * CPU_FREQ) \div PRESCALER_DIVISOR) \div 1000 + SERIAL_TOP)
      \div (SERIAL_TOP + 1)

(* C9: fdserial_alarm(ms) sets the Delay countdown to
   ceil(ms * F / P / 1000 / (TOP + 1)) whole-bit periods. *)
C9_AlarmCountdown ==
    pc = "alarm_262" => fd_uart1.delay = CeilPeriods(arg)

(* ------------------------------------------------------------------ *)
(* fdserial_init called again: main() sends, receives and calls        *)
(* fdserial_init at any time while a remote sender drives the RX line. *)
(* ------------------------------------------------------------------ *)
InitReinit ==
    \E r \in BOOLEAN :
      Reset([ring |-> r, char_signed |-> TRUE, wired |-> FALSE])

NextReinit ==
    \/ fdserial_init
    \/ hist.inits < MaxInits /\ CallInit
    \/ \E b \in {85} : Len(hist.sent) < SysFrames /\ CallSend(b, FALSE)
    \/ fdserial_send
    \/ Len(hist.got) < SysFrames /\ ~hist.oob /\ CallRecv
    \/ fdserial_recv
    \/ ISR_INT0
    \/ ISR_TIMER1_COMPA
    \/ ISR_TIMER1_COMPB
    \/ Tick(Phases, SysFrames)

SpecReinit == InitReinit /\ [][NextReinit]_vars

(* C7: when fdserial_init completes, called from the reset state or
   again from any reachable state, the TIMER1_COMPA and TIMER1_COMPB
   interrupts are disabled, INT0 is enabled, send_ready is true and
   nothing is available (ring: rx_head = rx_tail). *)
C7_AfterInit ==
    [][(pc = "init_66w" /\ pc' = "idle") =>
         /\ "OCIE1A" \notin TIMSK'
         /\ "OCIE1B" \notin TIMSK'
         /\ "INT0" \in GIMSK'
         /\ fd_uart1'.send_ready = 1
         /\ IF build.ring
              THEN fd_uart1'.rx_head = fd_uart1'.rx_tail
              ELSE fd_uart1'.available = 0]_vars

(* ------------------------------------------------------------------ *)
(* Both directions at once: main() calls fdserial_send, fdserial_alarm *)
(* and fdserial_delay while a remote sender drives the RX line.        *)
(* ------------------------------------------------------------------ *)
NextDuplex ==
    \/ fdserial_init
    \/ \E b \in {85} : Len(hist.sent) < MaxSends /\ CallSend(b, FALSE)
    \/ fdserial_send
    \/ \E d \in {1}, who \in {"main", "delay"} : CallAlarm(d, who)
    \/ fdserial_alarm
    \/ ISR_INT0
    \/ ISR_TIMER1_COMPA
    \/ ISR_TIMER1_COMPB
    \/ Tick(Phases, SysFrames)

SpecDuplex == InitTx /\ [][NextDuplex]_vars

(* The statements of fdserial_send and fdserial_alarm. *)
TxStatements ==
    {"send_197", "send_199", "send_200", "send_201", "send_202", "send_82r",
     "send_82w", "alarm_254", "alarm_258", "alarm_260", "alarm_261",
     "alarm_262", "alarm_263", "delay_280"}

(* C10: no statement of the foreground fdserial_send / fdserial_alarm
   changes the receive side: rx_state, recv_shift, recv_bits, OCR1B, the
   OCIE1B bit of TIMSK and the INT0 bit of GIMSK, whatever handlers ran
   between its statements. *)
C10_TxLeavesRx ==
    [][(pc \in TxStatements /\ pc' # pc) =>
         /\ ("OCIE1B" \in TIMSK') = ("OCIE1B" \in TIMSK)
         /\ ("INT0" \in GIMSK') = ("INT0" \in GIMSK)
         /\ OCR1B' = OCR1B
         /\ fd_uart1'.rx_state = fd_uart1.rx_state
         /\ fd_uart1'.recv_shift = fd_uart1.recv_shift
         /\ fd_uart1'.recv_bits = fd_uart1.recv_bits]_vars

(* ------------------------------------------------------------------ *)
(* Reception in the single-slot build: the remote sender sends the     *)
(* octets 1, 2, 3, ... and the foreground calls fdserial_recv and      *)
(* fdserial_available at any time.                                     *)
(* ------------------------------------------------------------------ *)
InitSlot == Reset([ring |-> FALSE, char_signed |-> TRUE, wired |-> FALSE])

NextSlot ==
    \/ fdserial_init
    \/ Len(hist.got) < MaxRecvs /\ CallRecv
    \/ fdserial_recv
    \/ CallAvailable
    \/ fdserial_available
    \/ ISR_INT0
    \/ ISR_TIMER1_COMPB
    \/ Tick(Phases, MaxFrames)

SpecSlot == InitSlot /\ [][NextSlot]_vars

(* The octets fdserial_recv has returned, with the one it has read and
   is about to return. *)
SlotReturned ==
    IF pc \in {"recv_236", "recv_237", "recv_240"}
      THEN Append(hist.got, loc.c) ELSE hist.got

(* C11: in the single-slot build every octet returned by fdserial_recv
   was received on the wire (never the 0 that clears the slot), none is
   returned twice and the returns are in wire order (the remote sender
   sends 1, 2, 3, ...: strictly increasing); a publication replaces the
   octet in the slot, so a full slot holds the last octet published
   (except between the two clearing statements of fdserial_recv, where
   it holds 0). *)
C11_SlotInOrder ==
    /\ \A i \in 1 .. Len(SlotReturned) :
         /\ SlotReturned[i] # 0
         /\ \E j \in 1 .. Len(hist.pub) : SlotReturned[i] = hist.pub[j]
         /\ i > 1 => SlotReturned[i - 1] < SlotReturned[i]
    /\ fd_uart1.available = 1 =>
         /\ hist.pub # << >>
         /\ \/ fd_uart1.recv_byte = hist.pub[Len(hist.pub)]
            \/ pc = "recv_237" /\ fd_uart1.recv_byte = 0

(* Octet 1 was read, octet 2 was replaced unread by octet 3, octet 3 was
   read. *)
C11_Witness ==
    /\ ~build.ring
    /\ Len(hist.pub) >= 3
    /\ hist.got = << 1, 3 >>
    /\ pc = "idle"

(* C20: in the single-slot build an octet published while fdserial_recv
   is executing (after its read of recv_byte, so it is not the octet
   returned) is still in the slot, with available = 1, when
   fdserial_recv returns. *)
C20_SlotKeepsNew ==
    (~build.ring /\ pc = "recv_240" /\ hist.pub # << >>
       /\ hist.pub[Len(hist.pub)] # loc.c) =>
      /\ fd_uart1.available = 1
      /\ fd_uart1.recv_byte = hist.pub[Len(hist.pub)]

(* ------------------------------------------------------------------ *)
(* Reception of one frame: any octet, an edge at any counter value,    *)
(* any earlier content of recv_shift (fdserial_init does not write     *)
(* recv_shift: it holds what an earlier run left), and a remote sender *)
(* that may hold the line low in place of the stop bit.  remote.seq    *)
(* starts one below the octet of the frame.                            *)
(* ------------------------------------------------------------------ *)
RxInputs ==
    ([phase : AllPhases, octet : {165}, prior : {0}]
       \cup [phase : {0}, octet : Byte, prior : {0, 255}])
       \cup [phase : {0}, octet : {85, 165}, prior : Byte]

InitRx ==
    /\ pc = "init_130"
    /\ arg = 0
    /\ loc = LocReset
    /\ TCNT1 = 0 /\ OCR1A = 0 /\ OCR1B = 0
    /\ TIMSK = {} /\ TIFR = {} /\ GIMSK = {} /\ GIFR = {}
    /\ TCCR1 = FALSE
    /\ tx_pin = 1 /\ rx_pin = 1
    /\ build = [ring |-> FALSE, char_signed |-> TRUE, wired |-> FALSE]
    /\ hist = HistReset
    /\ \E i \in RxInputs :
         /\ fd_uart1 = [UartReset EXCEPT !.recv_shift = i.prior]
         /\ remote = [wire |-> << >>, phase |-> i.phase,
                      seq |-> (i.octet + 255) % 256]

(* The remote sender holds the line low for one more bit time before
   its stop bit. *)
RemoteBreak ==
    /\ remote.wire = << 1, 1 >>
    /\ hist.breaks < MaxBreaks
    /\ remote' = [remote EXCEPT !.wire = << 0 >> \o remote.wire]
    /\ hist' = [hist EXCEPT !.breaks = hist.breaks + 1]
    /\ UNCHANGED << pc, arg, loc, fd_uart1, TCNT1, OCR1A, OCR1B, TIMSK, TIFR,
                    GIMSK, GIFR, TCCR1, tx_pin, rx_pin, build >>

(* One frame: the remote sender may start while nothing was published. *)
RxFrames == IF hist.pub = << >> THEN 257 ELSE 0

NextRx ==
    \/ fdserial_init
    \/ ISR_INT0
    \/ ISR_TIMER1_COMPB
    \/ RemoteBreak
    \/ Tick({remote.phase}, RxFrames)

SpecRx ==
    /\ InitRx
    /\ [][NextRx]_vars
    /\ WF_vars(fdserial_init)
    /\ WF_vars(ISR_INT0)
    /\ WF_vars(ISR_TIMER1_COMPB)
    /\ WF_vars(Tick({remote.phase}, RxFrames))

(* The octet of the frame on the line. *)
RxOctet == remote.seq % 256

(* C12: the n levels sampled on the DataBit ticks after an edge are the
   top n bits of recv_shift, whatever recv_shift held before; after
   eight of them bit i of recv_shift is sample i (LSB first); the octet
   published on the AwaitHigh tick that samples the line high is that
   octet, and one octet is published for each edge detected. *)
C12_Assembly ==
    LET n == 8 - fd_uart1.recv_bits
        last == hist.pub[Len(hist.pub)]
    IN  /\ fd_uart1.rx_state = 2 =>
             /\ Len(hist.samples) = n
             /\ \A i \in 1 .. n :
                  Bit(fd_uart1.recv_shift, 8 - n + i - 1) = hist.samples[i]
        /\ fd_uart1.rx_state = 3 =>
             /\ Len(hist.samples) = 8
             /\ \A i \in 0 .. 7 :
                  Bit(fd_uart1.recv_shift, i) = hist.samples[i + 1]
        /\ (hist.pub # << >> /\ fd_uart1.rx_state = 0
              /\ Len(hist.samples) = 8) =>
             /\ \A i \in 0 .. 7 : Bit(last, i) = hist.samples[i + 1]
             /\ fd_uart1.recv_byte = last
             /\ fd_uart1.available = 1
        /\ hist.edges - Len(hist.pub) = IF "OCIE1B" \in TIMSK THEN 1 ELSE 0

(* The octet 165 was published over an earlier recv_shift of 255. *)
C12_Witness ==
    /\ remote.phase = 0
    /\ hist.pub = << 165 >>
    /\ hist.samples = << 1, 0, 1, 0, 0, 1, 0, 1 >>
    /\ hist.edges = 1
    /\ fd_uart1.recv_byte = 165
    /\ fd_uart1.rx_state = 0
    /\ hist.breaks = 0

(* C17: the INT0 handler sets OCR1B to (TCNT1 + HALFBIT) mod (TOP + 1),
   a value in 0 .. TOP; the first TIMER1_COMPB handler run comes HALFBIT
   counts after the edge and every later run of the frame TOP + 1 counts
   after the one before; the TIMER1_COMPB handler leaves OCR1B alone. *)
C17_SampleTimes ==
    /\ [][ISR_INT0 =>
            /\ OCR1B' = (TCNT1 + SERIAL_HALFBIT) % (SERIAL_TOP + 1)
            /\ OCR1B' \in 0 .. SERIAL_TOP]_vars
    /\ [][ISR_TIMER1_COMPB =>
            /\ OCR1B' = OCR1B
            /\ TCNT1 = OCR1B
            /\ hist.bheld = IF fd_uart1.rx_state = 0 THEN SERIAL_HALFBIT
                            ELSE SERIAL_TOP + 1]_vars

(* An edge at counter value 150 (above HALFBIT: the sample time wraps to
   46), the StartMid tick has run. *)
C17_Witness ==
    /\ remote.phase = 150
    /\ OCR1B = 46
    /\ TCNT1 = 46
    /\ fd_uart1.rx_state = 2
    /\ fd_uart1.recv_bits = 8

(* C18: a TIMER1_COMPB tick in AwaitHigh that samples the line low keeps
   AwaitHigh, publishes nothing, leaves the B tick enabled and INT0
   disabled; one that samples the line high publishes recv_shift once,
   returns to Idle, disables the B tick and enables INT0; and when the
   line returns high AwaitHigh is left: the receiver rearms. *)
C18_FramingError ==
    /\ [][(ISR_TIMER1_COMPB /\ fd_uart1.rx_state = 3) =>
            IF rx_pin = 0
              THEN /\ fd_uart1' = fd_uart1
                   /\ hist'.pub = hist.pub
                   /\ "OCIE1B" \in TIMSK'
                   /\ "INT0" \notin GIMSK'
              ELSE /\ hist'.pub = Append(hist.pub, fd_uart1.recv_shift)
                   /\ fd_uart1'.recv_byte = fd_uart1.recv_shift
                   /\ fd_uart1'.rx_state = 0
                   /\ "OCIE1B" \notin TIMSK'
                   /\ "INT0" \in GIMSK']_vars
    /\ (fd_uart1.rx_state = 3) ~>
         (fd_uart1.rx_state = 0 /\ "INT0" \in GIMSK /\ "OCIE1B" \notin TIMSK)

(* The stop bit was missing for two bit times; the octet was published
   when the line went high and the receiver is armed again. *)
C18_Witness ==
    /\ hist.breaks = 2
    /\ hist.pub = << RxOctet >>
    /\ fd_uart1.rx_state = 0
    /\ "INT0" \in GIMSK
    /\ "OCIE1B" \notin TIMSK

(* C13: in the ring build rx_head and rx_tail are in 0 .. N - 1 in every
   reachable state, so rx_buf is never indexed outside 0 .. N - 1. *)
C13_RingIndices ==
    build.ring =>
      /\ fd_uart1.rx_head \in 0 .. RING_BUFFER - 1
      /\ fd_uart1.rx_tail \in 0 .. RING_BUFFER - 1
      /\ pc = "recv_223" => loc.idx \in 0 .. RING_BUFFER - 1

(* The statements of fdserial_init. *)
InitStatements ==
    {"init_130", "init_131", "init_133", "init_134", "init_137", "init_138",
     "init_144", "init_145", "init_146", "init_151", "init_157", "init_159",
     "init_64", "init_66r", "init_66w"}

(* C14: after fdserial_init, whenever the foreground is outside the API,
   the TIMER1_COMPA interrupt is enabled exactly when tx_state is not
   Idle (StartBit, DataBit, StopBit, Return, Delay). *)
C14_ATickIffBusy ==
    pc = "idle" => (("OCIE1A" \in TIMSK) <=> (fd_uart1.tx_state # 0))

(* C15: after fdserial_init exactly one of INT0 and the TIMER1_COMPB
   interrupt is enabled: INT0 when the receive engine is idle, the B
   tick while a frame is received. *)
C15_EdgeOrBTick ==
    pc \notin InitStatements =>
      /\ ("INT0" \in GIMSK) # ("OCIE1B" \in TIMSK)
      /\ fd_uart1.rx_state \in {2, 3} => "OCIE1B" \in TIMSK
      /\ "INT0" \in GIMSK => fd_uart1.rx_state = 0

(* C16: under every interleaving of fdserial_send and fdserial_alarm with
   the TIMER1_COMPA handler, send_ready true implies tx_state Idle. *)
C16_ReadyImpliesIdle ==
    fd_uart1.send_ready # 0 => fd_uart1.tx_state = 0

(* A frame was sent to its Return tick: send_ready is true again and the
   transmitter is Idle. *)
C16_Witness ==
    /\ hist.sent = << 85 >>
    /\ hist.aticks = 11
    /\ fd_uart1.send_ready = 1
    /\ fd_uart1.tx_state = 0
    /\ "OCIE1A" \notin TIMSK
    /\ pc = "alarm_260"

(* C19: OCR1A and OCR1B always hold a value the counter reaches,
   0 .. TOP. *)
C19_CompareInRange ==
    /\ OCR1A \in 0 .. SERIAL_TOP
    /\ OCR1B \in 0 .. SERIAL_TOP

====
